---------------------------- MODULE Spec2Model ----------------------------
(***************************************************************************)
(* A model of chinese_id_generator.py: ChineseIdGenerator, which completes  *)
(* an 18-character identity-number pattern ('-' marks an unknown position)  *)
(* into every number that is consistent with the region whitelist, the      *)
(* calendar and the GB 11643-1999 check character.                          *)
(*                                                                          *)
(* Python strings are modelled as sequences of one-character strings, so    *)
(* that int(), str.format(), str.replace() and re.match() are computed and  *)
(* not assumed.                                                             *)
(***************************************************************************)
EXTENDS Integers, Sequences, FiniteSets, TLC

(***************************************************************************)
(* Characters and the string primitives the code uses.                     *)
(***************************************************************************)
DigitChars == <<"0", "1", "2", "3", "4", "5", "6", "7", "8", "9">>

Range(s) == {s[i] : i \in 1..Len(s)}

Min2(a, b) == IF a <= b THEN a ELSE b

Max2(a, b) == IF a >= b THEN a ELSE b

isdigit(c) == \E i \in 1..10 : DigitChars[i] = c

\* int(c) for one decimal character
DigitVal(c) == (CHOOSE i \in 1..10 : DigitChars[i] = c) - 1

\* int(s) for a non-empty string of decimal characters (leading zeros allowed)
RECURSIVE int(_)
int(s) ==
    IF Len(s) = 0 THEN 0
    ELSE 10 * int(SubSeq(s, 1, Len(s) - 1)) + DigitVal(s[Len(s)])

\* str(n) for n >= 0
RECURSIVE str(_)
str(n) ==
    IF n < 10 THEN <<DigitChars[n + 1]>>
    ELSE str(n \div 10) \o <<DigitChars[(n % 10) + 1]>>

\* f"{n:0{width}d}": zero-padded on the left to at least `width` characters
zfill(n, width) ==
    LET d == str(n)
    IN  [i \in 1..(Max2(width - Len(d), 0)) |-> "0"] \o d

\* s.replace(old, new) for one-character old and new
replace(s, old, new) == [i \in 1..Len(s) |-> IF s[i] = old THEN new ELSE s[i]]

\* s.ljust(width, fill)
ljust(s, width, fill) == s \o [i \in 1..(Max2(width - Len(s), 0)) |-> fill]

\* s.count(c)
count(s, c) == Cardinality({i \in 1..Len(s) : s[i] = c})

\* re.compile(regex).match(s) for a regex of literal characters and '.':
\* the match is anchored at the start of s only
re_match(regex, s) ==
    /\ Len(s) >= Len(regex)
    /\ \A i \in 1..Len(regex) : regex[i] = "." \/ regex[i] = s[i]

(***************************************************************************)
(* generate_numbers                                                        *)
(***************************************************************************)
\* all(c == '-' or c == o for c, o in zip(pattern, candidate))
zip_match(pattern, candidate) ==
    \A i \in 1..Min2(Len(pattern), Len(candidate)) :
        pattern[i] = "-" \/ pattern[i] = candidate[i]

\* for num in range(start, end + 1): if the padded form matches: yield num
\* (the range is walked in ascending order; it is split in halves only to
\* keep the evaluation shallow)
RECURSIVE generate_numbers_loop(_, _, _)
generate_numbers_loop(pattern, start, end) ==
    IF start > end THEN <<>>
    ELSE IF start = end
    THEN (IF zip_match(pattern, zfill(start, Len(pattern))) THEN <<start>> ELSE <<>>)
    ELSE LET mid == (start + end) \div 2
         IN  generate_numbers_loop(pattern, start, mid)
             \o generate_numbers_loop(pattern, mid + 1, end)

\* generate_numbers without the position test: every number of the clamped
\* range is yielded
generate_numbers_unchecked(pattern, min_val, max_val) ==
    IF \A i \in 1..Len(pattern) : pattern[i] # "-"
    THEN LET num == int(pattern)
         IN  IF min_val <= num /\ num <= max_val THEN <<num>> ELSE <<>>
    ELSE LET length == Len(pattern)
             lower  == int(ljust(replace(pattern, "-", "0"), length, "0"))
             upper  == int(ljust(replace(pattern, "-", "9"), length, "9"))
             start  == Max2(min_val, lower)
             end    == Min2(max_val, upper)
         IN  [i \in 1..(Max2(end - start + 1, 0)) |-> start + i - 1]

generate_numbers(pattern, min_val, max_val) ==
    IF \A i \in 1..Len(pattern) : pattern[i] # "-"
    THEN LET num == int(pattern)
         IN  IF min_val <= num /\ num <= max_val THEN <<num>> ELSE <<>>
    ELSE LET length == Len(pattern)
             lower  == int(ljust(replace(pattern, "-", "0"), length, "0"))
             upper  == int(ljust(replace(pattern, "-", "9"), length, "9"))
             start  == Max2(min_val, lower)
             end    == Min2(max_val, upper)
         IN  generate_numbers_loop(pattern, start, end)

(***************************************************************************)
(* Concatenation of a sequence of sequences, in order.  (Halving keeps the  *)
(* evaluation shallow; the order of the elements is that of the nested      *)
(* loops.)                                                                  *)
(***************************************************************************)
RECURSIVE FlattenRange(_, _, _)
FlattenRange(ss, lo, hi) ==
    IF lo > hi THEN <<>>
    ELSE IF lo = hi THEN ss[lo]
    ELSE LET mid == (lo + hi) \div 2
         IN  FlattenRange(ss, lo, mid) \o FlattenRange(ss, mid + 1, hi)

Flatten(ss) == FlattenRange(ss, 1, Len(ss))

(***************************************************************************)
(* calendar.monthrange(year, month)[1] of the standard library: the number  *)
(* of days of the month (mdays plus the leap day of February).              *)
(***************************************************************************)
calendar_isleap(year) ==
    year % 4 = 0 /\ (year % 100 # 0 \/ year % 400 = 0)

calendar_mdays == <<31, 28, 31, 30, 31, 30, 31, 31, 30, 31, 30, 31>>

monthrange_days(year, month) ==
    calendar_mdays[month] + (IF month = 2 /\ calendar_isleap(year) THEN 1 ELSE 0)

(***************************************************************************)
(* __init__: the check-code parameters                                      *)
(***************************************************************************)
weights == <<7, 9, 10, 5, 8, 4, 2, 1, 6, 3, 7, 9, 10, 5, 8, 4, 2>>

check_codes == <<"1", "0", "X", "9", "8", "7", "6", "5", "4", "3", "2">>

(***************************************************************************)
(* parse_pattern                                                           *)
(***************************************************************************)
parse_pattern(p) ==
    [region   |-> SubSeq(p, 1, 6),
     year     |-> SubSeq(p, 7, 10),
     month    |-> SubSeq(p, 11, 12),
     day      |-> SubSeq(p, 13, 14),
     sequence |-> SubSeq(p, 15, 17),
     check    |-> p[18]]

(***************************************************************************)
(* filter_regions: the whitelist codes the pattern matches, as a set; the   *)
(* code returns them as a list in the iteration order of a Python set.      *)
(***************************************************************************)
filter_regions(whitelist, region_pattern) ==
    LET regex == replace(region_pattern, "-", ".")
    IN  {code \in whitelist : re_match(regex, code)}

\* the orders in which a Python set may be iterated
ListsOf(S) ==
    {f \in [1..Cardinality(S) -> S] : \A i, j \in 1..Cardinality(S) : f[i] = f[j] => i = j}

(***************************************************************************)
(* generate_dates                                                          *)
(***************************************************************************)
\* generate_dates without the calendar: every month is given 31 days
generate_dates_31(year_pattern, month_pattern, day_pattern) ==
    LET years  == generate_numbers(year_pattern, 1900, 2999)
        months == generate_numbers(month_pattern, 1, 12)
        of_month(year, month) ==
            LET days == generate_numbers(day_pattern, 1, 31)
            IN  [k \in 1..Len(days) |->
                    zfill(year, 4) \o zfill(month, 2) \o zfill(days[k], 2)]
        of_year(year) ==
            Flatten([j \in 1..Len(months) |-> of_month(year, months[j])])
    IN  Flatten([i \in 1..Len(years) |-> of_year(years[i])])

generate_dates(year_pattern, month_pattern, day_pattern) ==
    LET years  == generate_numbers(year_pattern, 1900, 2999)
        months == generate_numbers(month_pattern, 1, 12)
        of_month(year, month) ==
            LET max_day == monthrange_days(year, month)
                days    == generate_numbers(day_pattern, 1, max_day)
            IN  [k \in 1..Len(days) |->
                    zfill(year, 4) \o zfill(month, 2) \o zfill(days[k], 2)]
        of_year(year) ==
            Flatten([j \in 1..Len(months) |-> of_month(year, months[j])])
    IN  Flatten([i \in 1..Len(years) |-> of_year(years[i])])

(***************************************************************************)
(* generate_sequence                                                       *)
(***************************************************************************)
\* ''.join(p) for p in itertools.product(*parts), in product order
RECURSIVE product_join(_)
product_join(parts) ==
    IF Len(parts) = 0 THEN << <<>> >>
    ELSE LET first == Head(parts)
             rest  == product_join(Tail(parts))
         IN  Flatten([i \in 1..Len(first) |->
                        [j \in 1..Len(rest) |-> <<first[i]>> \o rest[j]]])

generate_sequence(pattern) ==
    LET wild_count == count(pattern, "-")
    IN  IF wild_count = 0 THEN <<pattern>>
        ELSE product_join([i \in 1..Len(pattern) |->
                             IF pattern[i] = "-" THEN DigitChars ELSE <<pattern[i]>>])

(***************************************************************************)
(* estimate_dates and its helpers                                          *)
(***************************************************************************)
_is_leap_year(year) ==
    year % 4 = 0 /\ (year % 100 # 0 \/ year % 400 = 0)

\* _estimate_wildcard_days without the leap years of February
_estimate_wildcard_days_common(month, common_max, leap_max, leap_count, total_years) ==
    total_years * common_max

_estimate_wildcard_days(month, common_max, leap_max, leap_count, total_years) ==
    IF month # 2 THEN total_years * common_max
    ELSE leap_count * leap_max + (total_years - leap_count) * common_max

\* _calc_group_days with the day range starting at the pattern's lower bound
\* (day 0 is counted)
_calc_group_days_from_lower(years, day_pattern, max_day) ==
    IF Len(years) = 0 THEN 0
    ELSE LET day_length == Len(day_pattern)
             lower == int(ljust(replace(day_pattern, "-", "0"), day_length, "0"))
             upper == int(ljust(replace(day_pattern, "-", "9"), day_length, "9"))
             start == lower
             end   == Min2(max_day, upper)
             regex == replace(day_pattern, "-", ".")
             valid_days ==
                 Cardinality({d \in start..end : re_match(regex, zfill(d, day_length))})
         IN  IF start > end THEN 0 ELSE Len(years) * valid_days

_calc_group_days(years, day_pattern, max_day) ==
    IF Len(years) = 0 THEN 0
    ELSE LET day_length == Len(day_pattern)
             lower == int(ljust(replace(day_pattern, "-", "0"), day_length, "0"))
             upper == int(ljust(replace(day_pattern, "-", "9"), day_length, "9"))
             start == Max2(1, lower)
             end   == Min2(max_day, upper)
             regex == replace(day_pattern, "-", ".")
             valid_days ==
                 Cardinality({d \in start..end : re_match(regex, zfill(d, day_length))})
         IN  IF start > end THEN 0 ELSE Len(years) * valid_days

_calculate_exact_days(years, month, day_pattern, common_max, leap_max) ==
    LET leap   == SelectSeq(years, LAMBDA y : _is_leap_year(y))
        common == SelectSeq(years, LAMBDA y : ~_is_leap_year(y))
    IN  _calc_group_days(leap, day_pattern, IF month = 2 THEN leap_max ELSE common_max)
        + _calc_group_days(common, day_pattern, common_max)

RECURSIVE SumSeq(_)
SumSeq(s) == IF Len(s) = 0 THEN 0 ELSE Head(s) + SumSeq(Tail(s))

estimate_dates(pattern) ==
    LET year_part  == pattern.year
        month_part == pattern.month
        day_part   == pattern.day
        years      == generate_numbers(year_part, 1900, 2999)
        leap_years == Cardinality({i \in 1..Len(years) : _is_leap_year(years[i])})
        total_years == Len(years)
        months     == generate_numbers(month_part, 1, 12)
        day_wildcards  == count(day_part, "-")
        is_special_day == \E i \in 1..Len(day_part) : isdigit(day_part[i])
        of_month(month) ==
            LET common_max_day == monthrange_days(2001, month)
                leap_max_day   == IF month = 2 THEN 29 ELSE common_max_day
            IN  IF ~is_special_day /\ day_wildcards > 0
                THEN _estimate_wildcard_days(month, common_max_day, leap_max_day,
                                             leap_years, total_years)
                ELSE _calculate_exact_days(years, month, day_part,
                                           common_max_day, leap_max_day)
    IN  IF Len(years) = 0 THEN 0
        ELSE IF Len(months) = 0 THEN 0
        ELSE SumSeq([j \in 1..Len(months) |-> of_month(months[j])])

RECURSIVE pow10(_)
pow10(k) == IF k = 0 THEN 1 ELSE 10 * pow10(k - 1)

estimate_total(whitelist, pattern) ==
    LET region_count == Cardinality(filter_regions(whitelist, pattern.region))
        date_count   == estimate_dates(pattern)
        seq_count    == pow10(count(pattern.sequence, "-"))
    IN  region_count * date_count * seq_count

(***************************************************************************)
(* calculate_check_code and process_batch                                  *)
(***************************************************************************)
\* calculate_check_code with the lookup string indexed one place too far
calculate_check_code_shifted(id_17) ==
    LET total == SumSeq([i \in 1..Min2(Len(id_17), Len(weights)) |->
                            int(<<id_17[i]>>) * weights[i]])
    IN  check_codes[((total + 1) % 11) + 1]

calculate_check_code(id_17) ==
    LET total == SumSeq([i \in 1..Min2(Len(id_17), Len(weights)) |->
                            int(<<id_17[i]>>) * weights[i]])
    IN  check_codes[(total % 11) + 1]

process_batch(args) ==
    LET region   == args[1]
        date_str == args[2]
        seq      == args[3]
        id_17    == region \o date_str \o seq
        check_code == calculate_check_code(id_17)
    IN  <<id_17 \o <<check_code>>>>

(***************************************************************************)
(* generate_components: the pools of itertools.product(valid_regions,      *)
(* dates, seq_gen) and the position of the next triple.  product() reads    *)
(* its three arguments to the end when it is built and yields the triples   *)
(* lazily, the last pool varying fastest.                                   *)
(***************************************************************************)
NoComponents == [regions |-> <<>>, dates |-> <<>>, seqs |-> <<>>, pos |-> 0]

product_size(chunks) == Len(chunks.regions) * Len(chunks.dates) * Len(chunks.seqs)

\* the k-th triple of the product, k counted from 0
product_at(chunks, k) ==
    LET D == Len(chunks.dates)
        S == Len(chunks.seqs)
    IN  <<chunks.regions[(k \div (D * S)) + 1],
          chunks.dates[((k \div S) % D) + 1],
          chunks.seqs[(k % S) + 1]>>

\* list(itertools.islice(chunks, n))
islice(chunks, n) ==
    LET m == Min2(n, product_size(chunks) - chunks.pos)
    IN  [i \in 1..m |-> product_at(chunks, chunks.pos + i - 1)]

\* valid_filter that keeps every identity number
valid_filter_keep_all(id_list, check_char) == id_list

\* [id_num for id_num in id_list if check_char in ('-', id_num[-1])]
valid_filter(id_list, check_char) ==
    SelectSeq(id_list, LAMBDA id_num : check_char = "-" \/ check_char = id_num[Len(id_num)])

\* dedup_loop that never adds to seen
RECURSIVE dedup_loop_no_add(_, _, _)
dedup_loop_no_add(results, seen, final) ==
    IF Len(results) = 0 THEN final
    ELSE LET id_num == Head(results)
         IN  IF id_num \notin seen
             THEN dedup_loop_no_add(Tail(results), seen, Append(final, id_num))
             ELSE dedup_loop_no_add(Tail(results), seen, final)

\* seen = set(); final = []; for id_num in results: if id_num not in seen: ...
RECURSIVE dedup_loop(_, _, _)
dedup_loop(results, seen, final) ==
    IF Len(results) = 0 THEN final
    ELSE LET id_num == Head(results)
         IN  IF id_num \notin seen
             THEN dedup_loop(Tail(results), seen \cup {id_num}, Append(final, id_num))
             ELSE dedup_loop(Tail(results), seen, final)

(***************************************************************************)
(* State.                                                                  *)
(*   gn_*  one call of generate_numbers                                     *)
(*   fn_*  one call each of estimate_dates, generate_dates, estimate_total  *)
(*         and generate_components on the same pattern                      *)
(*   the rest: one run of parallel_generate                                 *)
(***************************************************************************)
VARIABLES gn_pattern, gn_min, gn_max, gn_out, gn_pc,
          fn_whitelist, fn_pattern, fn_date_count, fn_dates, fn_total,
          fn_components, fn_pc,
          valid_regions,  \* self.valid_regions: the whitelist codes
          input_id,       \* the 18-character input pattern
          pc,             \* where the run of parallel_generate is
          pattern,        \* parse_pattern(input_id)
          total,          \* the estimate handed to the progress bar
          calls,          \* the methods entered so far, in order
          chunks,         \* the product of generate_components
          batch,          \* the triples handed to the pool
          pending,        \* the indexes of batch whose result is still to come
          results,        \* the accumulated identity numbers
          batch_no,       \* how many batches were taken from chunks
          pbar_n,         \* the progress bar's count
          final           \* the list parallel_generate returns

gn_vars == <<gn_pattern, gn_min, gn_max, gn_out, gn_pc>>

fn_vars == <<fn_whitelist, fn_pattern, fn_date_count, fn_dates, fn_total,
             fn_components, fn_pc>>

run_vars == <<valid_regions, input_id, pc, pattern, total, calls, chunks, batch,
              pending, results, batch_no, pbar_n, final>>

vars == <<gn_vars, fn_vars, run_vars>>

(***************************************************************************)
(* Bounds of the model.                                                    *)
(***************************************************************************)
\* chunk_size of parallel_generate, 100000 in the code, scaled down so that
\* a run of a few candidates spans several batches
chunk_size == 2

\* the most candidates of a run whose check field is '-' (every candidate
\* is kept, so every completion order of a batch gives another list)
MaxUnfiltered == 8

\* the most candidates of a run whose check field is a character
MaxCandidates == 30

\* the longest pattern of generate_numbers drawn from NumberChars
MaxWidth == 2

\* the longest accumulated result list handed to the deduplication
MaxResults == 4

(***************************************************************************)
(* Inputs.                                                                 *)
(***************************************************************************)
R110101 == <<"1", "1", "0", "1", "0", "1">>

R110102 == <<"1", "1", "0", "1", "0", "2">>

R310101 == <<"3", "1", "0", "1", "0", "1">>

Whitelists == {{R110101, R110102, R310101}, {R110101}, {R110102, R310101}}

RegionPatterns == {
    <<"1", "1", "0", "1", "0", "1">>, <<"1", "1", "0", "1", "0", "-">>, <<"-", "-", "-", "-", "-", "-">>,
    <<"-", "1", "0", "1", "0", "-">>, <<"4", "4", "0", "0", "0", "0">> }

SeqPatterns == {
    <<"0", "0", "1">>, <<"1", "2", "-">>, <<"-", "0", "-">> }

CheckChars == {"-", "5", "X", "0"}

\* (year, month, day) patterns of the runs of parallel_generate
RunDatePatterns == {
    <<<<"1", "9", "9", "0">>, <<"0", "1">>, <<"0", "1">>>>,
    <<<<"2", "0", "2", "3">>, <<"0", "2">>, <<"2", "-">>>>,
    <<<<"2", "0", "2", "4">>, <<"0", "2">>, <<"2", "9">>>>,
    <<<<"2", "0", "2", "3">>, <<"0", "2">>, <<"2", "9">>>>,
    <<<<"2", "0", "0", "-">>, <<"0", "2">>, <<"2", "9">>>>,
    <<<<"1", "9", "0", "0">>, <<"0", "2">>, <<"-", "9">>>>,
    <<<<"2", "0", "0", "0">>, <<"0", "-">>, <<"3", "1">>>>,
    <<<<"1", "8", "9", "9">>, <<"0", "1">>, <<"0", "1">>>>,
    <<<<"2", "0", "2", "3">>, <<"1", "-">>, <<"3", "-">>>>,
    <<<<"2", "0", "2", "3">>, <<"0", "2">>, <<"-", "-">>>>,
    <<<<"1", "9", "-", "0">>, <<"1", "3">>, <<"-", "-">>>> }

YearPatterns == {
    <<"2", "0", "2", "3">>, <<"2", "0", "2", "4">>, <<"1", "9", "0", "0">>, <<"2", "0", "0", "-">>,
    <<"1", "9", "-", "0">>, <<"2", "-", "0", "0">>, <<"1", "8", "9", "9">>, <<"3", "0", "0", "0">> }

MonthPatterns == {
    <<"0", "2">>, <<"-", "-">>, <<"1", "-">>, <<"-", "1">>,
    <<"0", "0">>, <<"1", "3">>, <<"0", "-">> }

DayPatterns == {
    <<"-", "-">>, <<"3", "-">>, <<"-", "1">>, <<"2", "9">>, <<"0", "0">>,
    <<"3", "1">>, <<"-", "0">>, <<"0", "-">>, <<"2", "-">>, <<"3", "2">> }

\* (whitelist, region pattern, sequence pattern) of the calls of
\* estimate_total and generate_components
FnContexts == {
    <<{R110101, R110102, R310101}, <<"1", "1", "0", "1", "0", "-">>, <<"0", "0", "1">>>>,
    <<{R110101, R110102, R310101}, <<"-", "1", "0", "1", "0", "-">>, <<"1", "2", "-">>>>,
    <<{R110102, R310101}, <<"1", "1", "0", "1", "0", "1">>, <<"0", "0", "1">>>>,
    <<{R110101}, <<"-", "-", "-", "-", "-", "-">>, <<"-", "0", "-">>>> }

NumberChars == {"0", "1", "2", "9", "-"}

\* every pattern of 1..MaxWidth characters of NumberChars, and the field
\* patterns above
NumberPatterns ==
    UNION {[1..w -> NumberChars] : w \in 1..MaxWidth}
        \cup YearPatterns \cup MonthPatterns \cup DayPatterns
        \cup {<<"-", "-", "-", "-">>, <<"2", "9", "-", "-">>, <<"-", "9", "0", "0">>,
              <<"-", "0", "-">>}

NumberBounds == {0, 1, 5, 12, 28, 29, 30, 31, 99, 100, 1900, 2999}

\* accumulated result lists handed to the deduplication
SampleIds == {
    <<"1", "1", "0", "1", "0", "1", "1", "9", "9", "0", "0", "1", "0", "1", "0", "0", "1", "5">>,
    <<"1", "1", "0", "1", "0", "2", "2", "0", "2", "4", "0", "2", "2", "9", "0", "0", "1", "X">>,
    <<"3", "1", "0", "1", "0", "1", "2", "0", "0", "0", "0", "2", "2", "9", "0", "0", "1", "0">> }

(***************************************************************************)
(* One call of generate_numbers.                                           *)
(***************************************************************************)
GnIdle ==
    /\ gn_pattern = <<>>
    /\ gn_min = 0
    /\ gn_max = 0
    /\ gn_out = <<>>
    /\ gn_pc = "idle"

GnInit ==
    /\ gn_pattern \in NumberPatterns
    /\ gn_min \in NumberBounds
    /\ gn_max \in NumberBounds
    /\ gn_min <= gn_max
    /\ gn_out = <<>>
    /\ gn_pc = "call"

CallGenerateNumbers ==
    /\ gn_pc = "call"
    /\ gn_out' = generate_numbers(gn_pattern, gn_min, gn_max)
    /\ gn_pc' = "returned"
    /\ UNCHANGED <<gn_pattern, gn_min, gn_max, fn_vars, run_vars>>

(***************************************************************************)
(* The estimate and the enumeration of one pattern, side by side.          *)
(***************************************************************************)
FnIdle ==
    /\ fn_whitelist = {}
    /\ fn_pattern = parse_pattern([i \in 1..18 |-> "-"])
    /\ fn_date_count = 0
    /\ fn_dates = <<>>
    /\ fn_total = 0
    /\ fn_components = NoComponents
    /\ fn_pc = "idle"

FnInit ==
    /\ \E ctx \in FnContexts, y \in YearPatterns, m \in MonthPatterns,
          d \in DayPatterns :
          /\ fn_whitelist = ctx[1]
          /\ fn_pattern = parse_pattern(ctx[2] \o y \o m \o d \o ctx[3] \o <<"-">>)
    /\ fn_date_count = 0
    /\ fn_dates = <<>>
    /\ fn_total = 0
    /\ fn_components = NoComponents
    /\ fn_pc = "estimate_dates"

CallEstimateDates ==
    /\ fn_pc = "estimate_dates"
    /\ fn_date_count' = estimate_dates(fn_pattern)
    /\ fn_pc' = "generate_dates"
    /\ UNCHANGED <<fn_whitelist, fn_pattern, fn_dates, fn_total, fn_components,
                   gn_vars, run_vars>>

CallGenerateDates ==
    /\ fn_pc = "generate_dates"
    /\ fn_dates' = generate_dates(fn_pattern.year, fn_pattern.month, fn_pattern.day)
    /\ fn_pc' = "estimate_total"
    /\ UNCHANGED <<fn_whitelist, fn_pattern, fn_date_count, fn_total, fn_components,
                   gn_vars, run_vars>>

CallEstimateTotal ==
    /\ fn_pc = "estimate_total"
    /\ fn_total' = estimate_total(fn_whitelist, fn_pattern)
    /\ fn_pc' = "generate_components"
    /\ UNCHANGED <<fn_whitelist, fn_pattern, fn_date_count, fn_dates, fn_components,
                   gn_vars, run_vars>>

\* generate_components(pattern), valid_regions being the list filter_regions
\* returned: the product, or raised for the ValueError
generate_components(p, valid_regions_list) ==
    IF Len(valid_regions_list) = 0
    THEN [raised |-> TRUE, chunks |-> NoComponents]
    ELSE [raised |-> FALSE,
          chunks |-> [regions |-> valid_regions_list,
                      dates   |-> generate_dates(p.year, p.month, p.day),
                      seqs    |-> generate_sequence(p.sequence),
                      pos     |-> 0]]

CallGenerateComponents ==
    /\ fn_pc = "generate_components"
    /\ \E valid \in ListsOf(filter_regions(fn_whitelist, fn_pattern.region)) :
          LET r == generate_components(fn_pattern, valid)
          IN  /\ fn_components' = r.chunks
              /\ fn_pc' = IF r.raised THEN "raised" ELSE "returned"
    /\ UNCHANGED <<fn_whitelist, fn_pattern, fn_date_count, fn_dates, fn_total,
                   gn_vars, run_vars>>

(***************************************************************************)
(* One run of parallel_generate(input_id).                                 *)
(***************************************************************************)
RunIdle ==
    /\ valid_regions = {}
    /\ input_id = [i \in 1..18 |-> "-"]
    /\ pc = "idle"
    /\ pattern = parse_pattern([i \in 1..18 |-> "-"])
    /\ total = 0
    /\ calls = <<>>
    /\ chunks = NoComponents
    /\ batch = <<>>
    /\ pending = {}
    /\ results = <<>>
    /\ batch_no = 0
    /\ pbar_n = 0
    /\ final = <<>>

\* the number of candidates of an input
InputSize(whitelist, p) ==
    Cardinality(filter_regions(whitelist, p.region))
        * Len(generate_dates(p.year, p.month, p.day))
        * Len(generate_sequence(p.sequence))

RunInit ==
    /\ valid_regions \in Whitelists
    /\ \E r \in RegionPatterns, ymd \in RunDatePatterns, q \in SeqPatterns,
          c \in CheckChars :
          input_id = r \o ymd[1] \o ymd[2] \o ymd[3] \o q \o <<c>>
    /\ InputSize(valid_regions, parse_pattern(input_id))
          <= (IF input_id[18] = "-" THEN MaxUnfiltered ELSE MaxCandidates)
    /\ pc = "start"
    /\ pattern = parse_pattern([i \in 1..18 |-> "-"])
    /\ total = 0
    /\ calls = <<>>
    /\ chunks = NoComponents
    /\ batch = <<>>
    /\ pending = {}
    /\ results = <<>>
    /\ batch_no = 0
    /\ pbar_n = 0
    /\ final = <<>>

\* lines 52-59: the pattern is parsed and the progress bar's total estimated
\* (on a pattern of digits and '-' estimate_total raises nothing)
ParseAndEstimate ==
    /\ pc = "start"
    /\ pattern' = parse_pattern(input_id)
    /\ total' = estimate_total(valid_regions, pattern')
    /\ calls' = calls \o <<"parse_pattern", "estimate_total", "filter_regions",
                           "estimate_dates">>
    /\ pc' = "components"
    /\ UNCHANGED <<valid_regions, input_id, chunks, batch, pending, results,
                   batch_no, pbar_n, final, gn_vars, fn_vars>>

\* GenerateComponents with the dates and the sequence codes generated before
\* the region list is looked at
GenerateComponents_regions_last ==
    /\ pc = "components"
    /\ \E valid \in ListsOf(filter_regions(valid_regions, pattern.region)) :
          LET dates == generate_dates(pattern.year, pattern.month, pattern.day)
              seqs  == generate_sequence(pattern.sequence)
          IN  \/ /\ Len(valid) = 0
                 /\ chunks' = chunks
                 /\ calls' = calls \o <<"generate_components", "generate_dates",
                                        "generate_sequence", "filter_regions">>
                 /\ pc' = "raised"
              \/ /\ Len(valid) > 0
                 /\ chunks' = [regions |-> valid, dates |-> dates, seqs |-> seqs,
                               pos |-> 0]
                 /\ calls' = calls \o <<"generate_components", "generate_dates",
                                        "generate_sequence", "filter_regions">>
                 /\ pc' = "loop"
    /\ UNCHANGED <<valid_regions, input_id, pattern, total, batch, pending,
                   results, batch_no, pbar_n, final, gn_vars, fn_vars>>

\* line 63: chunks = self.generate_components(pattern); the ValueError of an
\* empty region list leaves parallel_generate
GenerateComponents ==
    /\ pc = "components"
    /\ \E valid \in ListsOf(filter_regions(valid_regions, pattern.region)) :
          LET r == generate_components(pattern, valid)
          IN  \/ /\ r.raised
                 /\ chunks' = chunks
                 /\ calls' = calls \o <<"generate_components", "filter_regions">>
                 /\ pc' = "raised"
              \/ /\ ~r.raised
                 /\ chunks' = r.chunks
                 /\ calls' = calls \o <<"generate_components", "filter_regions",
                                        "generate_dates", "generate_sequence">>
                 /\ pc' = "loop"
    /\ UNCHANGED <<valid_regions, input_id, pattern, total, batch, pending,
                   results, batch_no, pbar_n, final, gn_vars, fn_vars>>

\* TakeBatch that does not wait for the results of the batch before
TakeBatch_eager ==
    /\ pc \in {"loop", "collect"}
    /\ chunks.pos < product_size(chunks)
    /\ LET new == islice(chunks, chunk_size)
       IN  /\ batch' = batch \o new
           /\ chunks' = [chunks EXCEPT !.pos = @ + Len(new)]
           /\ pending' = pending \cup ((Len(batch) + 1)..(Len(batch) + Len(new)))
    /\ batch_no' = batch_no + 1
    /\ pc' = "collect"
    /\ UNCHANGED <<valid_regions, input_id, pattern, total, calls, results,
                   pbar_n, final, gn_vars, fn_vars>>

\* lines 69-74: the next batch is taken from chunks and handed to the pool
TakeBatch ==
    /\ pc = "loop"
    /\ chunks.pos < product_size(chunks)
    /\ batch' = islice(chunks, chunk_size)
    /\ chunks' = [chunks EXCEPT !.pos = @ + Len(batch')]
    /\ pending' = 1..Len(batch')
    /\ batch_no' = batch_no + 1
    /\ pc' = "collect"
    /\ UNCHANGED <<valid_regions, input_id, pattern, total, calls, results,
                   pbar_n, final, gn_vars, fn_vars>>

\* lines 75-82: imap_unordered hands over the result of whichever task is
\* done first; it is filtered by the check character and appended
CollectResult ==
    /\ pc = "collect"
    /\ \E i \in pending :
          LET id_list == process_batch(batch[i])
              valid   == valid_filter(id_list, pattern.check)
          IN  /\ results' = results \o valid
              /\ pbar_n' = pbar_n + Len(id_list)
              /\ pending' = pending \ {i}
              /\ pc' = IF pending' = {} THEN "loop" ELSE "collect"
    /\ UNCHANGED <<valid_regions, input_id, pattern, total, calls, chunks, batch,
                   batch_no, final, gn_vars, fn_vars>>

\* lines 70-71 and 84-91: chunks is exhausted; the results are deduplicated
\* and returned
Deduplicate ==
    /\ \/ pc = "loop" /\ chunks.pos >= product_size(chunks)
       \/ pc = "dedup"
    /\ final' = dedup_loop(results, {}, <<>>)
    /\ pc' = "done"
    /\ UNCHANGED <<valid_regions, input_id, pattern, total, calls, chunks, batch,
                   pending, results, batch_no, pbar_n, gn_vars, fn_vars>>

\* an aggregator handed an arbitrary accumulated list
DedupInit ==
    /\ valid_regions = {}
    /\ input_id = [i \in 1..18 |-> "-"]
    /\ pc = "dedup"
    /\ pattern = parse_pattern(input_id)
    /\ total = 0
    /\ calls = <<>>
    /\ chunks = NoComponents
    /\ batch = <<>>
    /\ pending = {}
    /\ results \in UNION {[1..n -> SampleIds] : n \in 0..MaxResults}
    /\ batch_no = 0
    /\ pbar_n = 0
    /\ final = <<>>

(***************************************************************************)
(* Specifications.                                                         *)
(***************************************************************************)
Init == GnIdle /\ FnIdle /\ RunInit

Next ==
    \/ ParseAndEstimate
    \/ GenerateComponents
    \/ TakeBatch
    \/ CollectResult
    \/ Deduplicate

Spec == Init /\ [][Next]_vars

InitNumbers == GnInit /\ FnIdle /\ RunIdle

NextNumbers == CallGenerateNumbers

SpecNumbers == InitNumbers /\ [][NextNumbers]_vars

InitEstimate == GnIdle /\ FnInit /\ RunIdle

NextEstimate ==
    \/ CallEstimateDates
    \/ CallGenerateDates
    \/ CallEstimateTotal
    \/ CallGenerateComponents

SpecEstimate == InitEstimate /\ [][NextEstimate]_vars

InitDedup == GnIdle /\ FnIdle /\ DedupInit

NextDedup == Deduplicate

SpecDedup == InitDedup /\ [][NextDedup]_vars

(***************************************************************************)
(* What the claims speak of, stated by arithmetic on the numbers and not    *)
(* through the string operations of the model.                              *)
(***************************************************************************)
RefVal(c) ==
    CASE c = "0" -> 0 [] c = "1" -> 1 [] c = "2" -> 2 [] c = "3" -> 3
      [] c = "4" -> 4 [] c = "5" -> 5 [] c = "6" -> 6 [] c = "7" -> 7
      [] c = "8" -> 8 [] c = "9" -> 9

RefIsDigit(c) == c \in {"0", "1", "2", "3", "4", "5", "6", "7", "8", "9"}

\* the i-th character of n written in `width` decimal places
RefChar(n, width, i) == DigitChars[((n \div (10 ^ (width - i))) % 10) + 1]

\* n, zero-padded to the length of p, equals p wherever p is not '-'
RefFits(n, p) ==
    /\ n >= 0
    /\ n < 10 ^ Len(p)
    /\ \A i \in 1..Len(p) : p[i] = "-" \/ p[i] = RefChar(n, Len(p), i)

\* the number a string of digits denotes
RECURSIVE RefNum(_)
RefNum(s) ==
    IF Len(s) = 0 THEN 0
    ELSE RefVal(s[1]) * (10 ^ (Len(s) - 1)) + RefNum(Tail(s))

RefLeap(y) == y % 4 = 0 /\ (y % 100 # 0 \/ y % 400 = 0)

RefDaysIn(y, m) ==
    IF m = 2 THEN (IF RefLeap(y) THEN 29 ELSE 28)
    ELSE IF m \in {4, 6, 9, 11} THEN 30 ELSE 31

RefString(n, width) == [i \in 1..width |-> RefChar(n, width, i)]

\* the calendar-valid dates of 1900..2999 that fit the three patterns
RefDates(yp, mp, dp) ==
    UNION {UNION {{RefString(y, 4) \o RefString(m, 2) \o RefString(d, 2) :
                       d \in {dd \in 1..RefDaysIn(y, m) : RefFits(dd, dp)}} :
                   m \in {mm \in 1..12 : RefFits(mm, mp)}} :
           y \in {yy \in 1900..2999 : RefFits(yy, yp)}}

RefWeights == <<7, 9, 10, 5, 8, 4, 2, 1, 6, 3, 7, 9, 10, 5, 8, 4, 2>>

RefLookup == <<"1", "0", "X", "9", "8", "7", "6", "5", "4", "3", "2">>

RECURSIVE RefWeightedSum(_, _)
RefWeightedSum(s, i) ==
    IF i > 17 THEN 0 ELSE RefVal(s[i]) * RefWeights[i] + RefWeightedSum(s, i + 1)

RefCheck(s) == RefLookup[(RefWeightedSum(s, 1) % 11) + 1]

\* code r matches the region field position by position
RefRegionFits(r, rp) ==
    /\ Len(r) = Len(rp)
    /\ \A i \in 1..Len(rp) : rp[i] = "-" \/ rp[i] = r[i]

\* the identity numbers the pattern p stands for, given the whitelist
RefIds(p, whitelist) ==
    LET rs == {r \in whitelist : RefRegionFits(r, SubSeq(p, 1, 6))}
        ds == RefDates(SubSeq(p, 7, 10), SubSeq(p, 11, 12), SubSeq(p, 13, 14))
        ss == {RefString(n, 3) : n \in {k \in 0..999 : RefFits(k, SubSeq(p, 15, 17))}}
        all == {r \o d \o q \o <<RefCheck(r \o d \o q)>> : r \in rs, d \in ds, q \in ss}
    IN  {id \in all : p[18] = "-" \/ p[18] = id[18]}

RefLower(p) == RefNum([i \in 1..Len(p) |-> IF p[i] = "-" THEN "0" ELSE p[i]])

RefUpper(p) == RefNum([i \in 1..Len(p) |-> IF p[i] = "-" THEN "9" ELSE p[i]])

(***************************************************************************)
(* C8: generate_numbers(pattern, min, max), min <= max, yields in strictly  *)
(* ascending order exactly the integers n of [min, max] whose decimal form, *)
(* zero-padded to the pattern's length, equals the pattern at every         *)
(* position that is not '-'; it yields nothing when the clamped lower bound *)
(* exceeds the clamped upper bound.                                         *)
(***************************************************************************)
C8_Numbers ==
    gn_pc = "returned" =>
        /\ \A i \in 1..(Len(gn_out) - 1) : gn_out[i] < gn_out[i + 1]
        /\ Range(gn_out) = {n \in gn_min..gn_max : RefFits(n, gn_pattern)}
        /\ (Max2(gn_min, RefLower(gn_pattern)) > Min2(gn_max, RefUpper(gn_pattern))
                => gn_out = <<>>)

\* a call in which both the clamp and the position test decide: "-1" on
\* [5, 31] has the clamped range 5..31 and yields 11, 21, 31
C8_Witness ==
    /\ gn_pc = "returned"
    /\ \E i \in 1..Len(gn_pattern) : gn_pattern[i] = "-"
    /\ gn_min > RefLower(gn_pattern)
    /\ gn_max < RefUpper(gn_pattern)
    /\ Len(gn_out) >= 3
    /\ \E n \in gn_min..gn_max : n \notin Range(gn_out)

RefYearOf(d) == RefNum(SubSeq(d, 1, 4))

RefMonthOf(d) == RefNum(SubSeq(d, 5, 6))

RefDayOf(d) == RefNum(SubSeq(d, 7, 8))

RefDateKey(d) == RefYearOf(d) * 10000 + RefMonthOf(d) * 100 + RefDayOf(d)

RefFeb29(year) == year \o <<"0", "2", "2", "9">>

FnDatesKnown == fn_pc \in {"estimate_total", "generate_components", "returned", "raised"}

(***************************************************************************)
(* C9: generate_dates yields only 8-digit YYYYMMDD strings with the year in *)
(* 1900..2999, the month in 1..12 and the day between 1 and the true day    *)
(* count of that year and month (February has 29 days exactly in the years  *)
(* divisible by 4 and not by 100, or divisible by 400), in ascending order  *)
(* by year, month and day, no date twice.  2000 and 2024 are leap years,    *)
(* 1900 and 2023 are not: 29 February is yielded for the former only.       *)
(***************************************************************************)
C9_Dates ==
    FnDatesKnown =>
        /\ \A k \in 1..Len(fn_dates) :
              LET d == fn_dates[k]
              IN  /\ Len(d) = 8
                  /\ \A i \in 1..8 : RefIsDigit(d[i])
                  /\ RefYearOf(d) \in 1900..2999
                  /\ RefMonthOf(d) \in 1..12
                  /\ RefDayOf(d) \in 1..RefDaysIn(RefYearOf(d), RefMonthOf(d))
        /\ \A k \in 1..(Len(fn_dates) - 1) :
              RefDateKey(fn_dates[k]) < RefDateKey(fn_dates[k + 1])
        /\ (fn_pattern.month = <<"0", "2">> /\ fn_pattern.day = <<"2", "9">>) =>
              /\ fn_pattern.year = <<"2", "0", "2", "4">> => fn_dates = <<RefFeb29(<<"2", "0", "2", "4">>)>>
              /\ fn_pattern.year = <<"2", "0", "0", "-">> => fn_dates[1] = RefFeb29(<<"2", "0", "0", "0">>)
              /\ fn_pattern.year = <<"1", "9", "0", "0">> => fn_dates = <<>>
              /\ fn_pattern.year = <<"2", "0", "2", "3">> => fn_dates = <<>>

\* a decade of all months and days: 29 February 2004 is among the dates,
\* 2001 has none
C9_Witness ==
    /\ FnDatesKnown
    /\ Len(fn_dates) > 3650
    /\ \E k \in 1..Len(fn_dates) : fn_dates[k] = RefFeb29(<<"2", "0", "0", "4">>)
    /\ \A k \in 1..Len(fn_dates) : fn_dates[k] # RefFeb29(<<"2", "0", "0", "1">>)

(***************************************************************************)
(* C4, as claimed: estimate_dates for year "200-", month "02", day "--"     *)
(* returns 281, one leap year of 29 days and nine years of 28.              *)
(***************************************************************************)
FnEstimateKnown == fn_pc \in {"generate_dates", "estimate_total", "generate_components",
                              "returned", "raised"}

C4_Case ==
    /\ FnEstimateKnown
    /\ fn_pattern.year = <<"2", "0", "0", "-">>
    /\ fn_pattern.month = <<"0", "2">>
    /\ fn_pattern.day = <<"-", "-">>

C4_Claimed == C4_Case => fn_date_count = 281

(***************************************************************************)
(* C4, amended: estimate_dates for year "200-", month "02", day "--"        *)
(* returns 283: the years 2000..2009 hold three leap years (2000, 2004,     *)
(* 2008) of 29 days and seven years of 28.                                  *)
(***************************************************************************)
C4_Estimate ==
    C4_Case =>
        /\ fn_date_count = 283
        /\ Cardinality({y \in 2000..2009 : RefLeap(y)}) = 3
        /\ fn_date_count = Cardinality({y \in 2000..2009 : RefLeap(y)}) * 29
                           + Cardinality({y \in 2000..2009 : ~RefLeap(y)}) * 28

C4_Witness == C4_Case /\ fn_pc = "returned" /\ fn_date_count > 0

(***************************************************************************)
(* C10: for a pattern whose region field matches a whitelist code, the      *)
(* total of estimate_total equals the number of (region, date, sequence)    *)
(* triples of generate_components, and estimate_dates equals the number of  *)
(* dates generate_dates yields, on the fast path (day "--") and on the      *)
(* exact path alike; year "2023", month "02", day "--" gives 28.            *)
(***************************************************************************)
C10_Exact ==
    /\ FnDatesKnown => fn_date_count = Len(fn_dates)
    /\ fn_pc = "returned" =>
          fn_total = Len(fn_components.regions) * Len(fn_components.dates)
                         * Len(fn_components.seqs)
    /\ (/\ FnDatesKnown
        /\ fn_pattern.year = <<"2", "0", "2", "3">>
        /\ fn_pattern.month = <<"0", "2">>
        /\ fn_pattern.day = <<"-", "-">>) => fn_date_count = 28

\* the fast path over months of different lengths and years of both kinds
C10_Witness ==
    /\ fn_pc = "returned"
    /\ fn_pattern.day = <<"-", "-">>
    /\ fn_pattern.month = <<"-", "-">>
    /\ fn_pattern.year = <<"2", "0", "0", "-">>
    /\ Len(fn_components.regions) > 1
    /\ fn_total > 3652

(***************************************************************************)
(* C1: each string of the list parallel_generate returns is 18 characters   *)
(* long, and its 18th character is the check character of its first 17:     *)
(* weights 7,9,10,5,8,4,2,1,6,3,7,9,10,5,8,4,2, sum modulo 11, index into   *)
(* "10X98765432".                                                           *)
(***************************************************************************)
C1_CheckCharacter ==
    pc = "done" =>
        \A k \in 1..Len(final) :
            /\ Len(final[k]) = 18
            /\ final[k][18] = RefCheck(SubSeq(final[k], 1, 17))

\* a returned list with several numbers, one of them ending in 'X'
C1_Witness ==
    /\ pc = "done"
    /\ Len(final) >= 2
    /\ \E k \in 1..Len(final) : final[k][18] = "X"

(***************************************************************************)
(* C2: for a pattern whose region field matches a whitelist code, the set   *)
(* of strings parallel_generate returns is exactly the set of r+d+s+c with  *)
(* r a whitelist code fitting the region field, d a calendar-valid date of  *)
(* 1900..2999 fitting the year, month and day fields, s a 3-digit string    *)
(* fitting the sequence field, c the check character of r+d+s, and the      *)
(* check field '-' or c; every output agrees with the pattern wherever the  *)
(* pattern is not '-'.                                                      *)
(***************************************************************************)
C2_ExactSet ==
    pc = "done" =>
        /\ Range(final) = RefIds(input_id, valid_regions)
        /\ \A k \in 1..Len(final) :
              \A i \in 1..18 : input_id[i] = "-" \/ input_id[i] = final[k][i]

\* a run with wildcards in the region and the date and a check character
\* that keeps some candidates and drops others
C2_Witness ==
    /\ pc = "done"
    /\ input_id[18] # "-"
    /\ Len(final) >= 1
    /\ pbar_n > Len(final)
    /\ \E i \in 1..6 : input_id[i] = "-"
    /\ \E i \in 7..14 : input_id[i] = "-"

(***************************************************************************)
(* C3, as claimed: with 110101 in the whitelist, the pattern                *)
(* "110101199001010015" has the single candidate 11010119900101001, whose   *)
(* check character is not '5', and the returned list is empty.              *)
(***************************************************************************)
C3_Case ==
    /\ pc = "done"
    /\ input_id = <<"1", "1", "0", "1", "0", "1", "1", "9", "9", "0", "0", "1", "0", "1", "0", "0", "1", "5">>
    /\ R110101 \in valid_regions

C3_Claimed ==
    C3_Case =>
        /\ pbar_n = 1
        /\ RefCheck(<<"1", "1", "0", "1", "0", "1", "1", "9", "9", "0", "0", "1", "0", "1", "0", "0", "1">>) # "5"
        /\ final = <<>>

(***************************************************************************)
(* C3, amended: with 110101 in the whitelist, the pattern                   *)
(* "110101199001010015" has the single candidate 11010119900101001, whose   *)
(* check character is '5' (weighted sum 106, 106 mod 11 = 7), and the       *)
(* returned list is the one number 110101199001010015.                      *)
(***************************************************************************)
C3_Matched ==
    C3_Case =>
        /\ pbar_n = 1
        /\ RefCheck(<<"1", "1", "0", "1", "0", "1", "1", "9", "9", "0", "0", "1", "0", "1", "0", "0", "1">>) = "5"
        /\ final = <<<<"1", "1", "0", "1", "0", "1", "1", "9", "9", "0", "0", "1", "0", "1", "0", "0", "1", "5">>>>

C3_Witness == C3_Case /\ batch_no = 1 /\ Len(results) = 1

\* the identity number of the k-th triple of the product, k counted from 0
RunId(k) == process_batch(product_at(chunks, k))[1]

\* the place in the product of a returned identity number
RunIndexOf(id) == CHOOSE k \in 0..(product_size(chunks) - 1) : RunId(k) = id

\* the batch a triple is taken in
RunBatchOf(k) == (k \div chunk_size) + 1

C5_Result ==
    pc = "done" =>
        /\ Range(final) =
              {id \in {RunId(k) : k \in 0..(product_size(chunks) - 1)} :
                  pattern.check = "-" \/ pattern.check = id[18]}
        /\ \A i, j \in 1..Len(final) :
              i < j => RunBatchOf(RunIndexOf(final[i])) <= RunBatchOf(RunIndexOf(final[j]))

C5_TakenWhenCollected ==
    batch_no' # batch_no =>
        /\ pending = {}
        /\ pbar_n = chunks.pos
        /\ batch_no' = batch_no + 1

(***************************************************************************)
(* C5: batches are processed one after another: the next batch is taken     *)
(* from chunks only when every result of the batch before was filtered and  *)
(* appended.  So whatever the order in which the workers complete, the      *)
(* returned list holds the same set of identity numbers, and every number   *)
(* of an earlier batch precedes every number of a later batch.              *)
(***************************************************************************)
C5_Batches == [](C5_Result) /\ [][C5_TakenWhenCollected]_vars

\* several batches, and inside a batch the results arrived out of order
C5_Witness ==
    /\ pc = "done"
    /\ batch_no >= 3
    /\ Len(final) >= 5
    /\ \E i, j \in 1..Len(final) : i < j /\ RunIndexOf(final[i]) > RunIndexOf(final[j])

(***************************************************************************)
(* C6, as claimed: when the region field matches no whitelist code the run  *)
(* ends with the ValueError of generate_components and no result list, and  *)
(* the failure comes before any date or sequence work has begun.            *)
(***************************************************************************)
RefNoRegion ==
    \A r \in valid_regions : ~RefRegionFits(r, SubSeq(input_id, 1, 6))

Entered(names) == \E i \in 1..Len(calls) : calls[i] \in names

C6_Claimed ==
    /\ RefNoRegion => pc \in {"start", "components", "raised"}
    /\ pc = "raised" =>
          /\ RefNoRegion
          /\ ~Entered({"estimate_dates", "generate_dates", "generate_sequence"})
          /\ batch_no = 0

(***************************************************************************)
(* C6, amended: when the region field matches no whitelist code the run     *)
(* ends with the ValueError of generate_components and no result list; the  *)
(* error is raised before generate_dates and generate_sequence are entered  *)
(* and before any batch is taken, so enumeration never starts.  The         *)
(* estimate of the progress bar (estimate_total, with estimate_dates) has   *)
(* run by then.                                                             *)
(***************************************************************************)
C6_Raised ==
    /\ RefNoRegion => pc \in {"start", "components", "raised"}
    /\ pc = "raised" =>
          /\ RefNoRegion
          /\ ~Entered({"generate_dates", "generate_sequence"})
          /\ Entered({"estimate_dates"})
          /\ chunks = NoComponents
          /\ batch_no = 0
          /\ pbar_n = 0
          /\ results = <<>>

C6_Witness ==
    /\ pc = "raised"
    /\ RefNoRegion
    /\ valid_regions # {}
    /\ RefDates(SubSeq(input_id, 7, 10), SubSeq(input_id, 11, 12),
                SubSeq(input_id, 13, 14)) # {}

\* the places of results that hold a string not seen before
RefFirsts(rs) == {i \in 1..Len(rs) : \A j \in 1..(i - 1) : rs[j] # rs[i]}

(***************************************************************************)
(* C7: the returned list holds no string twice; it is the accumulated       *)
(* results with only the first occurrence of each string kept, in the       *)
(* order of the first occurrences.                                          *)
(***************************************************************************)
C7_FirstSeen ==
    pc = "done" =>
        /\ \A i, j \in 1..Len(final) : final[i] = final[j] => i = j
        /\ Len(final) = Cardinality(RefFirsts(results))
        /\ \A k \in 1..Len(final) :
              \E i \in RefFirsts(results) :
                  /\ Cardinality({h \in RefFirsts(results) : h <= i}) = k
                  /\ final[k] = results[i]

\* a string that occurs twice, with another string between the occurrences
C7_Witness ==
    /\ pc = "done"
    /\ Len(final) >= 2
    /\ \E i, j, h \in 1..Len(results) :
          i < h /\ h < j /\ results[i] = results[j] /\ results[h] # results[i]

=============================================================================
